---- MODULE Spec2Model ----
(***************************************************************************)
(* A model of the newsletter pipeline: run_newsletter_auto.main and the    *)
(* functions it drives (load_config, configure_gemini, fetch_news,         *)
(* analyze_news_with_gemini, the three generate_* functions) together with *)
(* content_fetcher.fetch_news and is_similar.                              *)
(*                                                                         *)
(* Python values are tagged records (PyStr, PyNone, PyDatetime, PyDict);   *)
(* a dict is a function from its keys.  Text that the code only stores or  *)
(* concatenates is a TLA+ string; Japanese literals of the source are      *)
(* written in ASCII (the romanised reading), since the module is ASCII.    *)
(***************************************************************************)
EXTENDS Naturals, Sequences, FiniteSets, TLC

VARIABLES
    pc,                 \* main(): the statement about to run
    config,             \* main(): config (a dict)
    api_key,            \* os.environ.get("GEMINI_API_KEY")
    listing,            \* configure_gemini(): what genai.list_models() did
    model,              \* main(): model (PyNone or the selected variant)
    available_models,   \* configure_gemini(): available_models
    fpc,                \* fetch_news(): the statement about to run
    topics,             \* fetch_news(): topics, an ordered dict as a sequence
    excluded_terms,     \* fetch_news(): excluded_terms
    target_date_start,  \* fetch_news(): target_date_start
    target_date_end,    \* fetch_news(): target_date_end
    seen_titles,        \* fetch_news(): seen_titles
    news_results,       \* fetch_news(): news_results, an ordered dict
    category_items,     \* fetch_news(): category_items of the current category
    ci,                 \* fetch_news(): index of the current category
    ki,                 \* fetch_news(): index of the current keyword
    hi,                 \* fetch_news(): hits of news_items consumed so far
    dt,                 \* fetch_news(): the local dt of lines 98/109
    last_hit,           \* the hit taken by the latest loop iteration and its fate
    search_calls,       \* keywords handed to ddgs.news, in call order
    slept,              \* seconds spent in time.sleep
    news_data_processed,\* main(): news_data_processed, an ordered dict
    processed_items,    \* main(): processed_items of the current category
    ei,                 \* main(): index of the category being enriched
    ii,                 \* main(): index of the item being enriched
    all_text_context,   \* main(): all_text_context
    insights,           \* main(): insights
    glossary,           \* main(): glossary
    chart_data,         \* main(): chart_data
    service_calls,      \* calls made to the text-generation service, in order
    last_call,          \* outcome of the latest enrichment call
    output              \* what generate_html_body is handed

vars == << pc, config, api_key, listing, model, available_models, fpc, topics,
           excluded_terms, target_date_start, target_date_end, seen_titles, news_results, category_items, ci, ki,
           hi, dt, last_hit, search_calls, slept, news_data_processed,
           processed_items, ei, ii, all_text_context, insights, glossary,
           chart_data, service_calls, last_call, output >>

fetch_vars == << fpc, topics, excluded_terms, target_date_start,
                 target_date_end, seen_titles, news_results, category_items,
                 ci, ki, hi, dt, last_hit, search_calls, slept >>

main_vars == << pc, config, api_key, listing, model, available_models,
                news_data_processed, processed_items, ei, ii, all_text_context, insights, glossary, chart_data,
                service_calls, last_call, output >>

-----------------------------------------------------------------------------
(* Python values *)

PyNone == [ty |-> "NoneType"]
PyStr(s) == [ty |-> "str", s |-> s]
PyDict(d) == [ty |-> "dict", d |-> d]
PyDatetime(y, mo, d, h, tz) ==
    [ty |-> "datetime", year |-> y, month |-> mo, day |-> d, hour |-> h,
     tzinfo |-> tz]

EmptyDict == [k \in {} |-> PyNone]

\* dict.get(key, default)
Get(d, key, default) == IF key \in DOMAIN d THEN d[key] ELSE default

\* {**a, **b} and a.update(b): b's entries win
Merge(a, b) ==
    [k \in (DOMAIN a) \cup (DOMAIN b) |-> IF k \in DOMAIN b THEN b[k] ELSE a[k]]

\* truthiness of a Python value (bool(v))
Truthy(v) ==
    CASE v.ty = "NoneType" -> FALSE
      [] v.ty = "str" -> v.s # ""
      [] v.ty = "dict" -> DOMAIN v.d # {}
      [] v.ty = "list" -> v.l # << >>
      [] OTHER -> TRUE

\* str(v) as an f-string renders it
Format(v) ==
    CASE v.ty = "NoneType" -> "None"
      [] v.ty = "str" -> v.s
      [] OTHER -> "<object>"

Min(a, b) == IF a < b THEN a ELSE b

\* s[:n]
Prefix(s, n) == SubSeq(s, 1, Min(n, Len(s)))

\* s[i] of a string, as a one-character string
CharAt(s, i) == SubSeq(s, i, i)

PyList(l) == [ty |-> "list", l |-> l]

UpperToLower ==
    [c \in {"A", "B", "C", "D", "E", "F", "G", "H", "I", "J", "K", "L", "M", "N",
            "O", "P", "Q", "R", "S", "T", "U", "V", "W", "X", "Y", "Z"} |->
        CASE c = "A" -> "a" [] c = "B" -> "b" [] c = "C" -> "c" [] c = "D" -> "d"
          [] c = "E" -> "e" [] c = "F" -> "f" [] c = "G" -> "g" [] c = "H" -> "h"
          [] c = "I" -> "i" [] c = "J" -> "j" [] c = "K" -> "k" [] c = "L" -> "l"
          [] c = "M" -> "m" [] c = "N" -> "n" [] c = "O" -> "o" [] c = "P" -> "p"
          [] c = "Q" -> "q" [] c = "R" -> "r" [] c = "S" -> "s" [] c = "T" -> "t"
          [] c = "U" -> "u" [] c = "V" -> "v" [] c = "W" -> "w" [] c = "X" -> "x"
          [] c = "Y" -> "y" [] OTHER -> "z"]

\* s.lower()
RECURSIVE Lower(_)
Lower(s) ==
    IF s = "" THEN ""
    ELSE LET c == CharAt(s, 1)
         IN  (IF c \in DOMAIN UpperToLower THEN UpperToLower[c] ELSE c)
                 \o Lower(SubSeq(s, 2, Len(s)))

-----------------------------------------------------------------------------
(* difflib.SequenceMatcher(None, a, b).ratio(), as is_similar uses it.      *)
(* Titles are far shorter than 200 characters, so the autojunk heuristic   *)
(* is idle and no element is junk.  Indices are 1-based and inclusive.     *)

\* length of the common run of a[i..ahi] and b[j..bhi] starting at (i, j)
RECURSIVE RunLen(_, _, _, _, _, _)
RunLen(a, b, i, j, ahi, bhi) ==
    IF i > ahi \/ j > bhi THEN 0
    ELSE IF CharAt(a, i) # CharAt(b, j) THEN 0
    ELSE 1 + RunLen(a, b, i + 1, j + 1, ahi, bhi)

\* find_longest_match: the longest block, earliest in a, then earliest in b
find_longest_match(a, b, alo, ahi, blo, bhi) ==
    LET P == (alo..ahi) \X (blo..bhi)
        size == [p \in P |-> RunLen(a, b, p[1], p[2], ahi, bhi)]
        best == CHOOSE k \in {size[p] : p \in P} : \A p \in P : size[p] <= k
        besti == CHOOSE i \in alo..ahi :
                    /\ \E j \in blo..bhi : size[<<i, j>>] = best
                    /\ \A i2 \in alo..ahi :
                          (\E j \in blo..bhi : size[<<i2, j>>] = best) => i <= i2
        bestj == CHOOSE j \in blo..bhi :
                    /\ size[<<besti, j>>] = best
                    /\ \A j2 \in blo..bhi : size[<<besti, j2>>] = best => j <= j2
    IN  << besti, bestj, best >>

\* get_matching_blocks: the total size of the blocks it returns
RECURSIVE matching_chars(_, _, _, _, _, _)
matching_chars(a, b, alo, ahi, blo, bhi) ==
    IF alo > ahi \/ blo > bhi THEN 0
    ELSE LET m == find_longest_match(a, b, alo, ahi, blo, bhi)
             i == m[1]
             j == m[2]
             k == m[3]
         IN  IF k = 0 THEN 0
             ELSE k + matching_chars(a, b, alo, i - 1, blo, j - 1)
                    + matching_chars(a, b, i + k, ahi, j + k, bhi)

\* the threshold 0.6 of is_similar, as the fraction ThresholdNum / ThresholdDen
ThresholdNum == 6
ThresholdDen == 10

is_similar_inclusive(a, b) ==
    LET length == Len(a) + Len(b)
        matches == matching_chars(a, b, 1, Len(a), 1, Len(b))
    IN  IF length = 0 THEN TRUE
        ELSE 2 * matches * ThresholdDen >= ThresholdNum * length

\* ratio() > threshold, with ratio() = 2.0 * matches / length (1.0 when both
\* are empty), compared exactly
is_similar(a, b) ==
    LET length == Len(a) + Len(b)
        matches == matching_chars(a, b, 1, Len(a), 1, Len(b))
    IN  IF length = 0 THEN TRUE
        ELSE 2 * matches * ThresholdDen > ThresholdNum * length

\* titles: "abcde"/"abcxy" have ratio exactly 0.6, "abcdy" has 0.8 with
\* both; "AIk"/"aik" differ in case only; "d-tsnt-NSHy"/"d-tsnt-NSwHy" are
\* the spec's example pair (11 and 12 characters, ratio 22/23), one letter
\* per character; "abbb"/"bbab" have ratio 0.5 one way and 0.75 the other
Titles == {"abcde", "abcxy", "abcdy", "AIk", "aik", "d-tsnt-NSHy", "d-tsnt-NSwHy",
           "abbb", "bbab"}

\* the pairs of the model's titles that is_similar holds of, computed once
SimilarPairs ==
    UNION {IF is_similar(p[1], p[2]) THEN {p} ELSE {} : p \in Titles \X Titles}

\* any(is_similar(title, seen) for seen in seen_titles)
AnySimilar(title, seen) ==
    \E n \in 1..Len(seen) :
        IF title \in Titles /\ seen[n] \in Titles
        THEN << title, seen[n] >> \in SimilarPairs
        ELSE is_similar(title, seen[n])

-----------------------------------------------------------------------------
(* Exclusion filter: term in title *)

ContainsFolded(title, term) ==
    \E i \in 1..(Len(title) + 1) :
        /\ i + Len(term) - 1 <= Len(title)
        /\ \A n \in 1..Len(term) :
              Lower(CharAt(title, i + n - 1)) = Lower(CharAt(term, n))

\* Python's substring test, case-sensitive
Contains(title, term) ==
    \E i \in 1..(Len(title) + 1) :
        /\ i + Len(term) - 1 <= Len(title)
        /\ \A n \in 1..Len(term) : CharAt(title, i + n - 1) = CharAt(term, n)

\* excluded_terms and any(term in title for term in excluded_terms)
IsExcluded(title, terms) ==
    /\ Truthy(terms)
    /\ \E n \in 1..Len(terms.l) : Contains(title, terms.l[n])

-----------------------------------------------------------------------------
(* Dates.  A raw date string of the provider is an ISO timestamp, with or  *)
(* without a UTC offset, or text that dateutil cannot parse.               *)

Pad2(n) == IF n < 10 THEN "0" \o ToString(n) ELSE ToString(n)

\* the ISO text of a datetime, as the provider sends it
Iso(d) ==
    ToString(d.year) \o "-" \o Pad2(d.month) \o "-" \o Pad2(d.day) \o "T"
        \o Pad2(d.hour) \o ":00:00" \o (IF d.tzinfo = "None" THEN "" ELSE d.tzinfo)

\* the datetimes whose ISO text the model's provider can send
Days == {1, 2, 3}
Hours == {0, 12}
Offsets == {"None", "+09:00"}
DateUniverse ==
    {PyDatetime(2024, 5, d, h, tz) : d \in Days, h \in Hours, tz \in Offsets}

\* the ISO texts and the datetimes they denote
IsoTable == {<< Iso(d), d >> : d \in DateUniverse}

\* dateutil.parser.parse(date_str, fuzzy=True): the datetime, or a raise
parse(date_str) ==
    IF \E e \in IsoTable : e[1] = date_str
    THEN [raised |-> FALSE, value |-> (CHOOSE e \in IsoTable : e[1] = date_str)[2]]
    ELSE [raised |-> TRUE, value |-> PyNone]

\* dt.replace(tzinfo=None)
StripTz(d) == [d EXCEPT !.tzinfo = "None"]

\* a < b on naive datetimes
Before(a, b) ==
    \/ a.year < b.year
    \/ a.year = b.year /\ a.month < b.month
    \/ a.year = b.year /\ a.month = b.month /\ a.day < b.day
    \/ a.year = b.year /\ a.month = b.month /\ a.day = b.day /\ a.hour < b.hour

\* dt.strftime("%Y<nen>%m<gatsu>%d<nichi>")
strftime(d) ==
    ToString(d.year) \o "nen" \o Pad2(d.month) \o "gatsu" \o Pad2(d.day) \o "nichi"

\* datetime.min
DatetimeMin == PyDatetime(1, 1, 1, 0, "None")

is_in_date_range_exclusive(date_str, start, end) ==
    IF date_str = "" THEN FALSE
    ELSE LET p == parse(date_str)
             d == StripTz(p.value)
         IN  IF p.raised THEN FALSE
             ELSE IF Truthy(start) /\ ~Before(start, d) THEN FALSE
             ELSE IF Truthy(end) /\ Before(end, d) THEN FALSE
             ELSE TRUE

is_in_date_range_open(date_str, start, end) ==
    IF date_str = "" THEN FALSE
    ELSE LET p == parse(date_str)
             d == StripTz(p.value)
         IN  IF p.raised THEN TRUE
             ELSE IF Truthy(start) /\ Before(d, start) THEN FALSE
             ELSE IF Truthy(end) /\ Before(end, d) THEN FALSE
             ELSE TRUE

\* the helper is_in_date_range of fetch_news, closed over the two bounds
is_in_date_range(date_str, start, end) ==
    IF date_str = "" THEN FALSE
    ELSE LET p == parse(date_str)
             d == StripTz(p.value)
         IN  IF p.raised THEN FALSE
             ELSE IF Truthy(start) /\ Before(d, start) THEN FALSE
             ELSE IF Truthy(end) /\ Before(end, d) THEN FALSE
             ELSE TRUE

-----------------------------------------------------------------------------
(* fetch_news *)

\* max_results of the ddgs.news request: the provider returns at most this
\* many hits per keyword
max_results == 10

\* the model's cap on the hits one search returns (at most max_results)
MaxHits == 2

\* time.sleep(2) after a provider error
BackoffSeconds == 2

Unbound == [ty |-> "unbound"]

\* an ordered dict is a sequence of [key, value]; d[key] = value
DictPut(d, key, value) ==
    IF \E n \in 1..Len(d) : d[n].key = key
    THEN [n \in 1..Len(d) |->
              IF d[n].key = key THEN [key |-> key, value |-> value] ELSE d[n]]
    ELSE Append(d, [key |-> key, value |-> value])

\* the verdict of one iteration of the loop over news_items (lines 77-87)
HitFate(h, terms, start, end, seen) ==
    IF IsExcluded(h.title, terms) THEN "excluded"
    ELSE IF (Truthy(start) \/ Truthy(end)) /\ ~is_in_date_range(h.date, start, end)
         THEN "out_of_range"
    ELSE IF AnySimilar(h.title, seen) THEN "duplicate"
    ELSE "accepted"

\* the dict appended to category_items (lines 97-110); d is the local dt
\* after the try of lines 97-101
NewsItem(h, d) ==
    LET p == parse(h.date)
    IN  [title |-> PyStr(h.title),
         url |-> PyStr(h.url),
         source |-> PyStr(h.source),
         formatted_date |-> PyStr(IF p.raised THEN h.date ELSE strftime(p.value)),
         snippet |-> PyStr(h.body),
         date_obj |-> IF d = Unbound THEN DatetimeMin ELSE d]

\* the state fetch_news starts in (lines 35-54), for the given arguments
FetchEntry(t, terms, start, end) ==
    /\ fpc = "category"
    /\ topics = t
    /\ excluded_terms = terms
    /\ target_date_start = start
    /\ target_date_end = end
    /\ seen_titles = << >>
    /\ news_results = << >>
    /\ category_items = << >>
    /\ ci = 1
    /\ ki = 1
    /\ hi = 0
    /\ dt = Unbound
    /\ last_hit = [fate |-> "none"]
    /\ search_calls = << >>
    /\ slept = 0

\* for category, keywords in topics.items(): the next category (lines 56-58)
BeginCategory ==
    /\ fpc = "category"
    /\ ci <= Len(topics)
    /\ category_items' = << >>
    /\ ki' = 1
    /\ fpc' = "keyword"
    /\ UNCHANGED << topics, excluded_terms, target_date_start, target_date_end,
                    seen_titles, news_results, ci, hi, dt, last_hit,
                    search_calls, slept >>
    /\ UNCHANGED main_vars

SearchRaisesEndsKeywords ==
    /\ fpc = "keyword"
    /\ ki <= Len(topics[ci].keywords)
    /\ search_calls' = Append(search_calls, topics[ci].keywords[ki])
    /\ slept' = slept + BackoffSeconds
    /\ ki' = Len(topics[ci].keywords) + 1
    /\ last_hit' = [fate |-> "none"]
    /\ UNCHANGED << fpc, topics, excluded_terms, target_date_start,
                    target_date_end, seen_titles, news_results, category_items,
                    ci, hi, dt >>
    /\ UNCHANGED main_vars

\* ddgs.news raises: the except of lines 112-115
SearchRaises ==
    /\ fpc = "keyword"
    /\ ki <= Len(topics[ci].keywords)
    /\ search_calls' = Append(search_calls, topics[ci].keywords[ki])
    /\ slept' = slept + BackoffSeconds
    /\ ki' = ki + 1
    /\ last_hit' = [fate |-> "none"]
    /\ UNCHANGED << fpc, topics, excluded_terms, target_date_start,
                    target_date_end, seen_titles, news_results, category_items,
                    ci, hi, dt >>
    /\ UNCHANGED main_vars

\* ddgs.news returns news_items (lines 64-70)
SearchReturns ==
    /\ fpc = "keyword"
    /\ ki <= Len(topics[ci].keywords)
    /\ search_calls' = Append(search_calls, topics[ci].keywords[ki])
    /\ hi' = 0
    /\ fpc' = "hits"
    /\ last_hit' = [fate |-> "none"]
    /\ UNCHANGED << topics, excluded_terms, target_date_start, target_date_end,
                    seen_titles, news_results, category_items, ci, ki, dt, slept >>
    /\ UNCHANGED main_vars

\* the fate and the raw date of a taken hit (of none: "none" and "")
Verdict(taken) ==
    [fate |-> taken.fate,
     date |-> IF taken.fate = "none" THEN "" ELSE taken.hit.date]

SeenAfterAlways(seen, title, fate) == Append(seen, title)

\* seen_titles.append(title) of line 94, reached by an accepted hit only
SeenAfter(seen, title, fate) ==
    IF fate = "accepted" THEN Append(seen, title) ELSE seen

ItemsAfterPrepend(items, h, d, fate) ==
    IF fate = "accepted" THEN << NewsItem(h, d) >> \o items ELSE items

\* category_items.append(...) of line 103, reached by an accepted hit only
ItemsAfter(items, h, d, fate) ==
    IF fate = "accepted" THEN Append(items, NewsItem(h, d)) ELSE items

\* one iteration of for item in news_items (lines 72-110), on a hit of pool
Hit(pool) ==
    /\ fpc = "hits"
    /\ hi < MaxHits
    /\ hi < max_results
    /\ \E h \in pool :
          LET fate == HitFate(h, excluded_terms, target_date_start,
                              target_date_end, seen_titles)
              p == parse(h.date)
              d == IF p.raised THEN dt ELSE p.value
          IN  /\ last_hit' = [fate |-> fate, hit |-> h, after |-> Verdict(last_hit)]
              /\ seen_titles' = SeenAfter(seen_titles, h.title, fate)
              /\ category_items' = ItemsAfter(category_items, h, d, fate)
              /\ dt' = IF fate = "accepted" THEN d ELSE dt
    /\ hi' = hi + 1
    /\ UNCHANGED << fpc, topics, excluded_terms, target_date_start,
                    target_date_end, news_results, ci, ki, search_calls, slept >>
    /\ UNCHANGED main_vars

\* news_items is exhausted: on to the next keyword
EndHits ==
    /\ fpc = "hits"
    /\ ki' = ki + 1
    /\ hi' = 0
    /\ fpc' = "keyword"
    /\ UNCHANGED << topics, excluded_terms, target_date_start, target_date_end,
                    seen_titles, news_results, category_items, ci, dt, last_hit,
                    search_calls, slept >>
    /\ UNCHANGED main_vars

\* the keywords are exhausted: news_results[category] = category_items (line 119)
CloseCategory ==
    /\ fpc = "keyword"
    /\ ki > Len(topics[ci].keywords)
    /\ news_results' = DictPut(news_results, topics[ci].category, category_items)
    /\ ci' = ci + 1
    /\ fpc' = "category"
    /\ UNCHANGED << topics, excluded_terms, target_date_start, target_date_end,
                    seen_titles, category_items, ki, hi, dt, last_hit,
                    search_calls, slept >>
    /\ UNCHANGED main_vars

\* return news_results (line 121)
Return ==
    /\ fpc = "category"
    /\ ci > Len(topics)
    /\ fpc' = "returned"
    /\ UNCHANGED << topics, excluded_terms, target_date_start, target_date_end,
                    seen_titles, news_results, category_items, ci, ki, hi, dt,
                    last_hit, search_calls, slept >>
    /\ UNCHANGED main_vars

FetchStep(pool) ==
    \/ BeginCategory
    \/ SearchRaises
    \/ SearchReturns
    \/ Hit(pool)
    \/ EndHits
    \/ CloseCategory
    \/ Return

-----------------------------------------------------------------------------
(* load_config and configure_gemini *)

\* load_config: the file holds a mapping, is missing (FileNotFoundError is
\* caught and {} returned), or cannot be read or parsed (any other exception
\* leaves load_config and main)
LoadConfig(files) ==
    /\ pc = "load_config"
    /\ \E f \in files :
          CASE f.state = "ok" -> config' = f.content /\ pc' = "configure_gemini"
            [] f.state = "missing" -> config' = EmptyDict /\ pc' = "configure_gemini"
            [] OTHER -> config' = config /\ pc' = "aborted"
    /\ UNCHANGED << api_key, listing, model, available_models,
                    news_data_processed, processed_items, ei, ii,
                    all_text_context, insights, glossary, chart_data,
                    service_calls, last_call, output >>
    /\ UNCHANGED fetch_vars

\* s.replace(old, ''), for a non-empty old
RECURSIVE RemoveAll(_, _)
RemoveAll(s, old) ==
    IF Len(s) < Len(old) THEN s
    ELSE IF SubSeq(s, 1, Len(old)) = old
         THEN RemoveAll(SubSeq(s, Len(old) + 1, Len(s)), old)
    ELSE CharAt(s, 1) \o RemoveAll(SubSeq(s, 2, Len(s)), old)

\* the loop of lines 29-33 over genai.list_models()
RECURSIVE AvailableModels(_)
AvailableModels(listed) ==
    IF listed = << >> THEN << >>
    ELSE LET m == Head(listed)
             rest == AvailableModels(Tail(listed))
         IN  IF "generateContent" \in m.supported_generation_methods
             THEN << RemoveAll(m.name, "models/") >> \o rest
             ELSE rest

priority_list ==
    << "gemini-2.0-pro-exp", "gemini-2.0-flash-exp", "gemini-1.5-pro-latest",
       "gemini-1.5-pro", "gemini-1.5-flash-latest", "gemini-1.5-flash",
       "gemini-pro" >>

GenerativeModel(name) == [ty |-> "GenerativeModel", model_name |-> name]

InSeq(x, seq) == \E n \in 1..Len(seq) : seq[n] = x

SelectModelFirstAvailable(available) ==
    IF available # << >> THEN GenerativeModel(available[1]) ELSE PyNone

\* lines 37-56 and 63: the cascade over available_models
SelectModel(available) ==
    LET First(S) == CHOOSE n \in S : \A m \in S : n <= m
        candidates == {n \in 1..Len(priority_list) :
                          InSeq(priority_list[n], available)}
        family == {n \in 1..Len(available) : Contains(available[n], "gemini")}
    IN  IF candidates # {}
        THEN GenerativeModel(priority_list[First(candidates)])
        ELSE IF family # {} THEN GenerativeModel(available[First(family)])
        ELSE IF available # << >> THEN GenerativeModel(available[1])
        ELSE PyNone

\* configure_gemini without GEMINI_API_KEY (lines 20-23)
ConfigureNoKey ==
    /\ pc = "configure_gemini"
    /\ ~Truthy(api_key)
    /\ model' = PyNone
    /\ pc' = "fetch"
    /\ UNCHANGED << config, api_key, listing, available_models, news_data_processed,
                    processed_items, ei, ii, all_text_context, insights,
                    glossary, chart_data, service_calls, last_call, output >>
    /\ UNCHANGED fetch_vars

\* configure_gemini with a key: genai.list_models() yields the entries
\* d.listed and then ends or, when d.raised, raises (lines 24-63)
ConfigureWithKey(discoveries) ==
    /\ pc = "configure_gemini"
    /\ Truthy(api_key)
    /\ service_calls' = Append(service_calls, "list_models")
    /\ \E d \in discoveries :
          /\ listing' = d
          /\ available_models' = AvailableModels(d.listed)
          /\ model' = IF d.raised THEN GenerativeModel("gemini-pro")
                       ELSE SelectModel(AvailableModels(d.listed))
    /\ pc' = "fetch"
    /\ UNCHANGED << config, api_key, news_data_processed, processed_items, ei,
                    ii, all_text_context, insights, glossary, chart_data,
                    last_call, output >>
    /\ UNCHANGED fetch_vars

-----------------------------------------------------------------------------
(* The text of a service response, as the sequence of its parts:           *)
(*   fence   a markdown code-fence line                                    *)
(*   prose   text without braces and without field labels                  *)
(*   open    a "{" that opens no well-formed object                        *)
(*   close   a "}" that closes no well-formed object                       *)
(*   object  a well-formed JSON object, one field per line as the prompt   *)
(*           lays it out; pairs are its members in textual order, each a   *)
(*           string or null                                                *)
(*   line    label, delimiter, value and what ends the value: "newline",   *)
(*           "quote_comma" (the two characters quote, comma), "quote_brace"*)
(*           (quote, brace, then the end of the text) or "eof" (the text   *)
(*           ends); the last two only on the last part of a text; a value  *)
(*           neither begins with a delimiter character nor holds a field   *)
(*           name, and is empty only where no later line of the text ends  *)
(*           in "newline" or "quote_comma"                                 *)
(*   deep    a well-formed JSON object nested deeper than the interpreter's*)
(*           recursion limit, the only part of its text that has braces    *)

Fence == [t |-> "fence"]
Prose == [t |-> "prose"]
Open == [t |-> "open"]
Close == [t |-> "close"]
Object(pairs) == [t |-> "object", pairs |-> pairs]
Deep == [t |-> "deep"]
Line(label, value, end) == [t |-> "line", label |-> label, value |-> value, end |-> end]

HasOpen(part) == part.t \in {"open", "object", "deep"}
HasClose(part) ==
    \/ part.t \in {"close", "object", "deep"}
    \/ part.t = "line" /\ part.end = "quote_brace"

\* json.loads of an object's text: a dict, a later duplicate member winning
RECURSIVE DictOf(_)
DictOf(pairs) ==
    IF pairs = << >> THEN EmptyDict
    ELSE LET last == pairs[Len(pairs)]
         IN  Merge(DictOf(SubSeq(pairs, 1, Len(pairs) - 1)),
                   [k \in {last.key} |-> last.value])

extract_json_anchored(text) ==
    IF text # << >> /\ text[1].t = "object" /\ \A n \in 2..Len(text) : ~HasClose(text[n])
    THEN PyDict(DictOf(text[1].pairs))
    ELSE PyNone

\* extract_json: re.search(r'\{.*\}', text, re.DOTALL) spans the first "{"
\* to the last "}"; json.loads accepts the span iff it is one object
extract_json(text) ==
    LET opens == {n \in 1..Len(text) : HasOpen(text[n])}
        closes == {n \in 1..Len(text) : HasClose(text[n])}
        first == CHOOSE n \in opens : \A m \in opens : n <= m
        last == CHOOSE n \in closes : \A m \in closes : m <= n
    IN  IF opens = {} \/ closes = {} THEN PyNone
        ELSE IF last < first THEN PyNone
        ELSE IF first = last /\ text[first].t = "object"
             THEN PyDict(DictOf(text[first].pairs))
        ELSE PyNone

\* extract_json catches json.JSONDecodeError alone (line 73): json.loads
\* raises RecursionError on the span of a deep object, and extract_json with it
extract_json_raises(text) == \E n \in 1..Len(text) : text[n].t = "deep"

\* str(e) of that RecursionError
RecursionMessage == "maximum recursion depth exceeded"

\* s.strip(chars)
RECURSIVE StripChars(_, _)
StripChars(s, chars) ==
    IF s = "" THEN s
    ELSE IF CharAt(s, 1) \in chars THEN StripChars(SubSeq(s, 2, Len(s)), chars)
    ELSE IF CharAt(s, Len(s)) \in chars
         THEN StripChars(SubSeq(s, 1, Len(s) - 1), chars)
    ELSE s

Whitespace == {" ", "\t", "\n", "\r"}

EnrichmentKeys == {"summary", "detail", "reasoning", "sales_talk", "sales_hint"}

\* the field-name alternatives of the patterns (lines 121-127): the key or
\* its Japanese label
Labels ==
    [k \in EnrichmentKeys |->
        CASE k = "summary" -> {"summary", "youyaku"}
          [] k = "detail" -> {"detail", "shousai"}
          [] k = "reasoning" -> {"reasoning", "sentei riyuu"}
          [] k = "sales_talk" -> {"sales_talk", "shoudan talk"}
          [] OTHER -> {"sales_hint", "eigyou hint"}]

\* the text the salvage patterns run over, as lines: an object is its
\* members, one per line, the last followed by a newline and the brace
RECURSIVE SalvageLines(_)
SalvageLines(text) ==
    IF text = << >> THEN << >>
    ELSE LET part == Head(text)
             own == CASE part.t = "line" -> << part >>
                      [] part.t = "object" ->
                           [n \in 1..Len(part.pairs) |->
                               IF part.pairs[n].value.ty = "str"
                               THEN Line(part.pairs[n].key, part.pairs[n].value.s,
                                         IF n < Len(part.pairs) THEN "quote_comma"
                                         ELSE "newline")
                               ELSE Line(part.pairs[n].key, "null,", "newline")]
                      [] OTHER -> << >>
         IN  own \o SalvageLines(Tail(text))

\* the pattern of key finds its field name at the end of the line's label,
\* whatever the case (re.IGNORECASE), the delimiter following it
LabelMatches(label, key) ==
    \E name \in Labels[key] :
        /\ Len(name) <= Len(label)
        /\ Lower(SubSeq(label, Len(label) - Len(name) + 1, Len(label))) = Lower(name)

\* the lookahead (?=",|\n), for sales_hint also "\}\s*$
Terminated(line, key) ==
    \/ line.end \in {"newline", "quote_comma"}
    \/ key = "sales_hint" /\ line.end = "quote_brace"

\* the regex fallback of lines 120-131
Salvage(text) ==
    LET lines == SalvageLines(text)
        Hits(key) == {n \in 1..Len(lines) :
                         LabelMatches(lines[n].label, key) /\ Terminated(lines[n], key)}
        First(key) == CHOOSE n \in Hits(key) : \A m \in Hits(key) : n <= m
        found == {key \in EnrichmentKeys : Hits(key) # {}}
    IN  [key \in found |->
            PyStr(StripChars(StripChars(StripChars(lines[First(key)].value,
                                                  Whitespace), {"\""}), {","}))]

-----------------------------------------------------------------------------
(* analyze_news_with_gemini.  outcome is what model.generate_content and   *)
(* response.text do: raise (with the exception's message), or give text.   *)

\* the [:80] of line 80
SummaryCut == 80

\* lines 78-85: no model configured
NoModelAnalysis(item) ==
    [summary |-> PyStr(Prefix(Get(item, "snippet", PyStr("")).s, SummaryCut) \o "..."),
     detail |-> Get(item, "snippet", PyStr("shousai nashi")),
     reasoning |-> PyStr("(AI misetsuzoku)"),
     sales_talk |-> PyStr(Format(item["title"])
                          \o " ni tsuite kokyaku to hanashi wo shite mimashou."),
     sales_hint |-> PyStr("gyoukai doukou to shite no shoukai ga yuukou desu.")]

\* lines 134-140: fallback_data
fallback_data(item) ==
    [summary |-> item["title"],
     detail |-> Get(item, "snippet", PyStr("shousai seisei shippai")),
     reasoning |-> PyStr("shousai jouhou wo kakunin shite kudasai."),
     sales_talk |-> PyStr("wadai no kikkake to shite katsuyou kanou desu."),
     sales_hint |-> PyStr("kokyaku e jouhou teikyou wo okonatte kudasai.")]

ErrorAnalysisAsFallback(item, message) == fallback_data(item)

\* lines 144-152: the except branch
ErrorAnalysis(item, message) ==
    [summary |-> item["title"],
     detail |-> PyStr("AI seisei error: " \o message),
     reasoning |-> PyStr("error"),
     sales_talk |-> PyStr("-"),
     sales_hint |-> PyStr("-")]

\* lines 115-131: parsed, after the regex fallback
Parsed(text) ==
    LET parsed == extract_json(text)
    IN  IF ~Truthy(parsed) THEN Salvage(text) ELSE parsed.d

analyze_news_with_gemini(m, item, category, outcome) ==
    IF ~Truthy(m) THEN NoModelAnalysis(item)
    ELSE IF outcome.raised THEN ErrorAnalysis(item, outcome.message)
    ELSE IF extract_json_raises(outcome.text)
         THEN ErrorAnalysis(item, RecursionMessage)
    ELSE Merge(fallback_data(item), Parsed(outcome.text))

-----------------------------------------------------------------------------
(* main: the enrichment loop (lines 315-329) *)

\* items[:5]
EnrichCap == 5

\* one iteration of for item in items[:5] (lines 321-327)
EnrichItem(outcomes) ==
    /\ pc = "enrich"
    /\ ei <= Len(news_results)
    /\ ii <= Min(EnrichCap, Len(news_results[ei].value))
    /\ \E o \in outcomes :
          LET category == news_results[ei].key
              item == news_results[ei].value[ii]
              analysis == analyze_news_with_gemini(model, item, category, o)
              updated == Merge(item, analysis)
          IN  /\ processed_items' = Append(processed_items, updated)
              /\ all_text_context' =
                     all_text_context \o Format(updated["title"]) \o " "
                         \o Format(updated["summary"]) \o "\n"
              /\ service_calls' =
                     IF Truthy(model)
                     THEN Append(service_calls, "analyze:" \o Format(item["title"]))
                     ELSE service_calls
              /\ last_call' =
                     IF Truthy(model)
                     THEN [made |-> TRUE, outcome |-> o, item |-> item]
                     ELSE [made |-> FALSE, item |-> item]
    /\ ii' = ii + 1
    /\ UNCHANGED << pc, config, api_key, listing, model, available_models, news_data_processed,
                    ei, insights, glossary, chart_data, output >>
    /\ UNCHANGED fetch_vars

\* news_data_processed[category] = processed_items (line 329), and the next
\* category or the end of the loop
EnrichCloseCategory ==
    /\ pc = "enrich"
    /\ ei <= Len(news_results)
    /\ ii > Min(EnrichCap, Len(news_results[ei].value))
    /\ news_data_processed' =
           DictPut(news_data_processed, news_results[ei].key, processed_items)
    /\ processed_items' = << >>
    /\ ei' = ei + 1
    /\ ii' = 1
    /\ pc' = IF ei = Len(news_results) THEN "insight" ELSE "enrich"
    /\ UNCHANGED << config, api_key, listing, model, available_models, all_text_context, insights,
                    glossary, chart_data, service_calls, last_call, output >>
    /\ UNCHANGED fetch_vars

-----------------------------------------------------------------------------
(* main: the call of fetch_news (lines 305-312) *)

\* datetime.now() of the run, and start_date = today - timedelta(days=7)
Today == PyDatetime(2024, 5, 9, 12, "None")
start_date == [Today EXCEPT !.day = @ - 7]

\* news_data_raw = fetch_news(config.get('topics', {}),
\*     excluded_terms=config.get('excluded_terms', []), target_date_start=start_date)
CallFetch ==
    /\ pc = "fetch"
    /\ fpc = "idle"
    /\ topics' = Get(config, "topics", << >>)
    /\ excluded_terms' = Get(config, "excluded_terms", PyList(<< >>))
    /\ target_date_start' = start_date
    /\ target_date_end' = PyNone
    /\ seen_titles' = << >>
    /\ news_results' = << >>
    /\ category_items' = << >>
    /\ ci' = 1
    /\ ki' = 1
    /\ hi' = 0
    /\ dt' = Unbound
    /\ last_hit' = [fate |-> "none"]
    /\ search_calls' = << >>
    /\ slept' = 0
    /\ fpc' = "category"
    /\ UNCHANGED main_vars

\* fetch_news has returned: the loop of line 319 starts
AfterFetch ==
    /\ pc = "fetch"
    /\ fpc = "returned"
    /\ pc' = IF news_results = << >> THEN "insight" ELSE "enrich"
    /\ fpc' = "done"
    /\ UNCHANGED << config, api_key, listing, model, available_models, news_data_processed,
                    processed_items, ei, ii, all_text_context, insights,
                    glossary, chart_data, service_calls, last_call, output >>
    /\ UNCHANGED << topics, excluded_terms, target_date_start, target_date_end,
                    seen_titles, news_results, category_items, ci, ki, hi, dt,
                    last_hit, search_calls, slept >>

-----------------------------------------------------------------------------
(* generate_overall_insight, generate_glossary, generate_chart_data *)

InsightOf(text, reasoning, evidence) ==
    [text |-> text, reasoning |-> reasoning, evidence |-> evidence]

generate_overall_insight(m, outcome) ==
    IF ~Truthy(m)
    THEN [summary |-> InsightOf(PyStr("AI misetsuzoku"), PyStr(""), PyStr("")),
          proposal |-> InsightOf(PyStr("AI misetsuzoku"), PyStr(""), PyStr(""))]
    ELSE IF outcome.raised \/ extract_json_raises(outcome.text)
    THEN [summary |-> InsightOf(PyStr("seisei error"), PyStr(""), PyStr("")),
          proposal |-> InsightOf(PyStr("seisei error"), PyStr(""), PyStr(""))]
    ELSE LET got == extract_json(outcome.text)
             parsed == IF ~Truthy(got) THEN EmptyDict ELSE got.d
         IN  [summary |->
                  InsightOf(Get(parsed, "summary_text", PyStr("youyaku seisei shippai")),
                            Get(parsed, "summary_reasoning", PyStr("")),
                            PyStr("konshuu no news zenpan")),
              proposal |->
                  InsightOf(Get(parsed, "proposal_text", PyStr("teian seisei shippai")),
                            Get(parsed, "proposal_reasoning", PyStr("")),
                            PyStr("-"))]

generate_glossary(m, outcome) ==
    IF ~Truthy(m) THEN PyNone
    ELSE IF outcome.raised \/ extract_json_raises(outcome.text) THEN PyNone
    ELSE extract_json(outcome.text)

\* the Chart.js configuration a well-formed chart answer carries
SampleConfig(with_options) ==
    IF with_options
    THEN [type |-> PyStr("bar"), data |-> PyDict(EmptyDict), options |-> PyDict(EmptyDict)]
    ELSE [type |-> PyStr("bar"), data |-> PyDict(EmptyDict)]

\* the JSON text of SampleConfig(FALSE), when config arrives as a string
SampleConfigText == "{\"type\": \"bar\", \"data\": {}}"

\* json.loads(data['config']) of line 281: the value, or a raise
json_loads(s) ==
    IF s = SampleConfigText
    THEN [raised |-> FALSE, value |-> PyDict(SampleConfig(FALSE))]
    ELSE [raised |-> TRUE, value |-> PyNone]

fallback_chart ==
    PyDict([title |-> PyStr("data center shijou doukou (sample)"),
            source |-> PyStr("AI seisei error no tame sample hyouji"),
            reasoning |-> PyStr("error hassei ji no placeholder"),
            config |-> PyDict(SampleConfig(TRUE))])

generate_chart_data(m, outcome) ==
    IF ~Truthy(m) THEN PyNone
    ELSE IF outcome.raised \/ extract_json_raises(outcome.text) THEN fallback_chart
    ELSE LET data == extract_json(outcome.text)
             cfg == Get(data.d, "config", PyNone)
             normal ==
                 IF cfg.ty = "str" /\ ~json_loads(cfg.s).raised
                 THEN Merge(data.d, [k \in {"config"} |-> json_loads(cfg.s).value])
                 ELSE data.d
         IN  IF ~Truthy(data) THEN fallback_chart
             ELSE IF "config" \in DOMAIN normal /\ normal["config"].ty = "dict"
             THEN PyDict(Merge(normal,
                     [k \in {"config"} |->
                         PyDict(Merge([options |-> PyDict(EmptyDict)],
                                      normal["config"].d))]))
             ELSE fallback_chart

\* insights = generate_overall_insight(model, all_text_context[:5000])
GenerateInsight(outcomes) ==
    /\ pc = "insight"
    /\ \E o \in outcomes : insights' = generate_overall_insight(model, o)
    /\ service_calls' = IF Truthy(model) THEN Append(service_calls, "insight")
                        ELSE service_calls
    /\ pc' = "glossary"
    /\ UNCHANGED << config, api_key, listing, model, available_models, news_data_processed,
                    processed_items, ei, ii, all_text_context, glossary,
                    chart_data, last_call, output >>
    /\ UNCHANGED fetch_vars

\* glossary = generate_glossary(model, all_text_context[:3000])
GenerateGlossary(outcomes) ==
    /\ pc = "glossary"
    /\ \E o \in outcomes : glossary' = generate_glossary(model, o)
    /\ service_calls' = IF Truthy(model) THEN Append(service_calls, "glossary")
                        ELSE service_calls
    /\ pc' = "chart"
    /\ UNCHANGED << config, api_key, listing, model, available_models, news_data_processed,
                    processed_items, ei, ii, all_text_context, insights,
                    chart_data, last_call, output >>
    /\ UNCHANGED fetch_vars

\* chart_data = generate_chart_data(model, all_text_context[:3000])
GenerateChart(outcomes) ==
    /\ pc = "chart"
    /\ \E o \in outcomes : chart_data' = generate_chart_data(model, o)
    /\ service_calls' = IF Truthy(model) THEN Append(service_calls, "chart")
                        ELSE service_calls
    /\ pc' = "render"
    /\ UNCHANGED << config, api_key, listing, model, available_models, news_data_processed,
                    processed_items, ei, ii, all_text_context, insights,
                    glossary, last_call, output >>
    /\ UNCHANGED fetch_vars

-----------------------------------------------------------------------------
(* generate_html_body, as far as it can fail on what main hands it *)

\* urllib.parse.quote(item['title']) raises on a title that is no string
ItemBreaksRender(item) == item["title"].ty # "str"

\* chart_data['title'] and chart_data['source'] are read once the chart has a
\* non-empty config
ChartBreaksRender(chart) ==
    /\ Truthy(chart)
    /\ Truthy(Get(chart.d, "config", PyNone))
    /\ ~({"title", "source"} \subseteq DOMAIN chart.d)

\* desc = data if isinstance(data, str) else data['desc']
GlossaryBreaksRender(g) ==
    /\ Truthy(g)
    /\ \E term \in DOMAIN g.d :
          /\ g.d[term].ty # "str"
          /\ ~(g.d[term].ty = "dict" /\ "desc" \in DOMAIN g.d[term].d)

RenderRaises(news, chart, g) ==
    \/ \E c \in 1..Len(news) : \E n \in 1..Len(news[c].value) :
          ItemBreaksRender(news[c].value[n])
    \/ ChartBreaksRender(chart)
    \/ GlossaryBreaksRender(g)

\* lines 337-371: generate_html_body and the delivery of the page
Render ==
    /\ pc = "render"
    /\ IF RenderRaises(news_data_processed, chart_data, glossary)
       THEN /\ pc' = "aborted"
            /\ output' = output
       ELSE /\ pc' = "done"
            /\ output' = [news_data |-> news_data_processed,
                          summary_data |-> insights["summary"],
                          proposal_data |-> insights["proposal"],
                          chart_data |-> chart_data,
                          glossary |-> glossary]
    /\ UNCHANGED << config, api_key, listing, model, available_models, news_data_processed,
                    processed_items, ei, ii, all_text_context, insights,
                    glossary, chart_data, service_calls, last_call >>
    /\ UNCHANGED fetch_vars

-----------------------------------------------------------------------------
(* The environment: what the configuration file, the search provider and   *)
(* the text-generation service can hand the program.                       *)

MkHit(title, date, body) ==
    [title |-> title, url |-> "https://news.example/" \o title, date |-> date,
     source |-> "newswire", body |-> body]

\* the topics fetch_news is called with on its own: two categories, one
\* keyword each
FetchTopics ==
    << [category |-> "catA", keywords |-> << "k1" >>],
       [category |-> "catB", keywords |-> << "k2" >>] >>

\* the topics of the configuration: two categories, three keywords
Topics ==
    << [category |-> "catA", keywords |-> << "k1", "k2" >>],
       [category |-> "catB", keywords |-> << "k3" >>] >>

\* a snippet longer than SummaryCut (90 characters) and an ordinary one
LongBody ==
    LET ten == "0123456789"
    IN  ten \o ten \o ten \o ten \o ten \o ten \o ten \o ten \o ten
ShortBody == "short body"

\* raw dates inside and outside the window main asks for
RecentDate == Iso(PyDatetime(2024, 5, 3, 0, "None"))
UnparseableDate == "n/a"

\* hits of the titles that resemble one another, all dated inside the window
TitleHits == {MkHit(t, RecentDate, ShortBody) : t \in Titles \ {"AIk", "aik"}}

\* hits whose titles the exclusion lists tell apart, and a hit the date
\* filter drops
TermHits ==
    {MkHit(t, RecentDate, ShortBody) : t \in {"AIk", "aik", "abcxy"}}
        \cup {MkHit("abcde", UnparseableDate, ShortBody)}

\* raw dates: empty, unparseable, and the ISO text of every datetime
RawDates == {"", UnparseableDate} \cup {Iso(d) : d \in DateUniverse}

\* a hit of every raw date under one title, and a hit of another title
DateHits ==
    {MkHit("abcde", d, ShortBody) : d \in RawDates}
        \cup {MkHit("AIk", RecentDate, ShortBody)}

\* the hits of the whole-pipeline runs: a long snippet, an empty snippet,
\* and a hit the date filter drops
MainHits ==
    {MkHit("abcde", RecentDate, LongBody), MkHit("AIk", RecentDate, ""),
     MkHit("abcdy", UnparseableDate, ShortBody)}

\* exclusion lists: absent, empty, one term, two terms
TermLists ==
    {PyNone, PyList(<< >>), PyList(<< "AI" >>), PyList(<< "zz", "cx" >>)}

\* target windows: each bound absent or present
WindowStarts == {PyNone, PyDatetime(2024, 5, 2, 0, "None")}
WindowEnds == {PyNone, PyDatetime(2024, 5, 3, 0, "None")}

\* config.yaml: readable, missing, or unreadable
ConfigFiles ==
    {[state |-> "ok",
      content |-> [topics |-> Topics, excluded_terms |-> PyList(<< "zz" >>)]],
     [state |-> "missing"],
     [state |-> "unreadable"]}

\* GEMINI_API_KEY: unset, set to nothing, set
ApiKeys == {PyNone, PyStr(""), PyStr("secret")}

\* entries genai.list_models() can yield
Listed(name, methods) == [name |-> name, supported_generation_methods |-> methods]
ModelEntries ==
    {Listed("models/gemini-pro", {"generateContent", "countTokens"}),
     Listed("models/gemini-1.5-flash", {"generateContent"}),
     Listed("models/gemini-exp-1206", {"generateContent"}),
     Listed("models/text-bison-001", {"generateContent"}),
     Listed("models/gemini-2.0-pro-exp", {"embedContent"})}

\* the model's cap on the length of a listing
MaxListed == 3

SeqsUpTo(S, n) == UNION {[1..m -> S] : m \in 0..n}

\* every listing, ended normally or by a raise
AllDiscoveries ==
    {[raised |-> r, listed |-> l] : r \in BOOLEAN, l \in SeqsUpTo(ModelEntries, MaxListed)}

\* the listings of the whole-pipeline runs: the spec's example, and an empty one
MainDiscoveries ==
    {[raised |-> FALSE,
      listed |-> << Listed("models/gemini-pro", {"generateContent"}),
                    Listed("models/gemini-1.5-flash", {"generateContent"}) >>],
     [raised |-> FALSE, listed |-> << >>]}

Pair(key, value) == [key |-> key, value |-> value]
Raised(message) == [raised |-> TRUE, message |-> message]
Text(parts) == [raised |-> FALSE, text |-> parts]

\* answers to the per-item prompt: a raise, a clean object with the five
\* fields, an object with a null field and a field outside the five, broken
\* JSON whose labelled lines the regex fallback reads, and plain prose
EnrichOutcomes ==
    {Raised("429 quota"),
     Text(<< Object(<< Pair("summary", PyStr("S")), Pair("detail", PyStr("D")),
                       Pair("reasoning", PyStr("R")), Pair("sales_talk", PyStr("T")),
                       Pair("sales_hint", PyStr("H")) >>) >>),
     Text(<< Fence,
             Object(<< Pair("summary", PyNone), Pair("detail", PyStr("D")),
                       Pair("title", PyStr("rewritten")) >>),
             Fence >>),
     Text(<< Open, Line("\"Summary", "S\" ", "newline"), Line("shousai", "", "newline"),
             Line("\"sales_hint", "H", "quote_brace") >>),
     Text(<< Prose >>)}

\* the five fields in the order the prompt lists them, and a value for each
KeyOrder == << "summary", "detail", "reasoning", "sales_talk", "sales_hint" >>
ValueOf ==
    [k \in EnrichmentKeys |->
        CASE k = "summary" -> "S" [] k = "detail" -> "D" [] k = "reasoning" -> "R"
          [] k = "sales_talk" -> "T" [] OTHER -> "H"]

\* the Japanese label of each field
LabelOf ==
    [k \in EnrichmentKeys |->
        CASE k = "summary" -> "youyaku" [] k = "detail" -> "shousai"
          [] k = "reasoning" -> "sentei riyuu" [] k = "sales_talk" -> "shoudan talk"
          [] OTHER -> "eigyou hint"]

\* the keys of S, in the order of the prompt
KeysIn(S) == SelectSeq(KeyOrder, LAMBDA k : k \in S)

\* the members of a JSON object that has the fields S
PairsOf(S) == [n \in 1..Len(KeysIn(S)) |-> Pair(KeysIn(S)[n], PyStr(ValueOf[KeysIn(S)[n]]))]

\* the fields S as the lines of a JSON object that is cut short: "key": "value",
JsonLines(S) ==
    [n \in 1..Len(KeysIn(S)) |->
        Line("\"" \o KeysIn(S)[n], ValueOf[KeysIn(S)[n]], "quote_comma")]

\* the fields S as plain lines under their Japanese labels: label: value
PlainLines(S) ==
    [n \in 1..Len(KeysIn(S)) |-> Line(LabelOf[KeysIn(S)[n]], ValueOf[KeysIn(S)[n]], "newline")]

\* answers to the per-item prompt, for the parser: every subset of the five
\* fields as an object, bare and fenced, as the lines of an object cut short
\* and as plain labelled lines; the answers above; a deep object, bare and
\* fenced; labelled lines the last of which ends with the text; an object
\* between prose; and an object followed by a stray brace
ParseOutcomes ==
    {Text(<< Object(PairsOf(S)) >>) : S \in SUBSET EnrichmentKeys}
        \cup {Text(<< Fence, Object(PairsOf(S)), Fence >>) : S \in SUBSET EnrichmentKeys}
        \cup {Text(<< Open >> \o JsonLines(S)) : S \in SUBSET EnrichmentKeys}
        \cup {Text(PlainLines(S)) : S \in SUBSET EnrichmentKeys}
        \cup EnrichOutcomes
        \cup {Text(<< Deep >>), Text(<< Fence, Deep, Fence >>),
              Text(<< Line("summary", "S", "newline"), Line("detail", "D", "eof") >>),
              Text(<< Line("youyaku", "S", "newline"), Line("sales_hint", "H", "eof") >>),
              Text(<< Prose, Object(PairsOf(EnrichmentKeys)), Prose >>),
              Text(<< Object(PairsOf(EnrichmentKeys)), Close >>)}

\* answers to the three whole-issue prompts
InsightOutcomes ==
    {Raised("429 quota"),
     Text(<< Object(<< Pair("summary_text", PyStr("trend")),
                       Pair("proposal_text", PyStr("plan")) >>) >>)}

GlossaryOutcomes ==
    {Raised("429 quota"),
     Text(<< Object(<< Pair("term", PyStr("meaning")) >>) >>)}

ChartOutcomes ==
    {Raised("429 quota"),
     Text(<< Object(<< Pair("title", PyStr("chart")), Pair("source", PyStr("made up")),
                       Pair("reasoning", PyStr("why")),
                       Pair("config", PyStr(SampleConfigText)) >>) >>),
     Text(<< Object(<< Pair("config", PyDict(SampleConfig(FALSE))) >>) >>),
     Text(<< Object(<< Pair("title", PyStr("chart")) >>) >>)}

-----------------------------------------------------------------------------
(* The specifications *)

\* fetch_news not yet called
FetchIdle ==
    /\ fpc = "idle"
    /\ topics = << >>
    /\ excluded_terms = PyNone
    /\ target_date_start = PyNone
    /\ target_date_end = PyNone
    /\ seen_titles = << >>
    /\ news_results = << >>
    /\ category_items = << >>
    /\ ci = 1
    /\ ki = 1
    /\ hi = 0
    /\ dt = Unbound
    /\ last_hit = [fate |-> "none"]
    /\ search_calls = << >>
    /\ slept = 0

\* main's variables before their first assignment
MainEntry(at, key) ==
    /\ pc = at
    /\ config = EmptyDict
    /\ api_key = key
    /\ listing = PyNone
    /\ model = PyNone
    /\ available_models = << >>
    /\ news_data_processed = << >>
    /\ processed_items = << >>
    /\ ei = 1
    /\ ii = 1
    /\ all_text_context = ""
    /\ insights = PyNone
    /\ glossary = PyNone
    /\ chart_data = PyNone
    /\ service_calls = << >>
    /\ last_call = [made |-> FALSE]
    /\ output = PyNone

\* Spec: a run of main()
Init == (\E key \in ApiKeys : MainEntry("load_config", key)) /\ FetchIdle

Next ==
    \/ LoadConfig(ConfigFiles)
    \/ ConfigureNoKey
    \/ ConfigureWithKey(MainDiscoveries)
    \/ CallFetch
    \/ FetchStep(MainHits)
    \/ AfterFetch
    \/ EnrichItem(EnrichOutcomes)
    \/ EnrichCloseCategory
    \/ GenerateInsight(InsightOutcomes)
    \/ GenerateGlossary(GlossaryOutcomes)
    \/ GenerateChart(ChartOutcomes)
    \/ Render

Spec == Init /\ [][Next]_vars

\* SpecFetch: fetch_news(FetchTopics, None, start_date) on hits whose titles
\* resemble one another
InitFetch ==
    /\ MainEntry("fetch_news", PyNone)
    /\ FetchEntry(FetchTopics, PyNone, start_date, PyNone)

NextFetch == FetchStep(TitleHits)

SpecFetch == InitFetch /\ [][NextFetch]_vars

\* SpecWindow: fetch_news(FetchTopics, None, start, end) on hits of every raw date
InitWindow ==
    /\ MainEntry("fetch_news", PyNone)
    /\ \E start \in WindowStarts, end \in WindowEnds :
          FetchEntry(FetchTopics, PyNone, start, end)

NextWindow == FetchStep(DateHits)

SpecWindow == InitWindow /\ [][NextWindow]_vars

\* SpecTerms: fetch_news(FetchTopics, terms, start_date) on every exclusion list
InitTerms ==
    /\ MainEntry("fetch_news", PyNone)
    /\ \E terms \in TermLists : FetchEntry(FetchTopics, terms, start_date, PyNone)

NextTerms == FetchStep(TermHits)

SpecTerms == InitTerms /\ [][NextTerms]_vars

\* SpecParse: the enrichment loop of main on two items of one category with
\* the model "gemini-pro", on every answer of ParseOutcomes
ParseHits == << MkHit("abcde", RecentDate, LongBody), MkHit("AIk", RecentDate, "") >>

InitParse ==
    /\ pc = "enrich"
    /\ config = [topics |-> << [category |-> "catA", keywords |-> << "k1" >>] >>]
    /\ api_key = PyStr("secret")
    /\ listing = [raised |-> TRUE, listed |-> << >>]
    /\ model = GenerativeModel("gemini-pro")
    /\ available_models = << >>
    /\ news_data_processed = << >>
    /\ processed_items = << >>
    /\ ei = 1
    /\ ii = 1
    /\ all_text_context = ""
    /\ insights = PyNone
    /\ glossary = PyNone
    /\ chart_data = PyNone
    /\ service_calls = << "list_models" >>
    /\ last_call = [made |-> FALSE]
    /\ output = PyNone
    /\ fpc = "done"
    /\ topics = << [category |-> "catA", keywords |-> << "k1" >>] >>
    /\ excluded_terms = PyList(<< >>)
    /\ target_date_start = start_date
    /\ target_date_end = PyNone
    /\ seen_titles = << ParseHits[1].title, ParseHits[2].title >>
    /\ news_results =
           << [key |-> "catA",
               value |-> [n \in 1..2 |->
                             NewsItem(ParseHits[n], parse(ParseHits[n].date).value)]] >>
    /\ category_items = news_results[1].value
    /\ ci = 2
    /\ ki = 2
    /\ hi = 0
    /\ dt = parse(RecentDate).value
    /\ last_hit = [fate |-> "accepted", hit |-> ParseHits[2],
                   after |-> [fate |-> "accepted", date |-> RecentDate]]
    /\ search_calls = << "k1" >>
    /\ slept = 0

NextParse ==
    \/ EnrichItem(ParseOutcomes)
    \/ EnrichCloseCategory

SpecParse == InitParse /\ [][NextParse]_vars

\* SpecCap: main() without a model, from the third keyword of the first
\* category to the end of the enrichment loop: the first two keywords gave
\* four items, and the hits to come hold two more titles that resemble none
\* of them and a near-duplicate of each of the two
CapTopics ==
    << [category |-> "catA", keywords |-> << "k1", "k2", "k3" >>],
       [category |-> "catB", keywords |-> << "k4" >>] >>

\* the hits the first two keywords gave, two each
CapAccepted ==
    << MkHit("AIk", RecentDate, ShortBody), MkHit("aik", RecentDate, ShortBody),
       MkHit("abbb", RecentDate, ShortBody), MkHit("abcxy", RecentDate, ShortBody) >>

CapHits ==
    {MkHit(t, RecentDate, ShortBody) :
        t \in {"abcde", "abcdy", "d-tsnt-NSHy", "d-tsnt-NSwHy"}}

InitCap ==
    /\ pc = "fetch"
    /\ config = [topics |-> CapTopics]
    /\ api_key = PyNone
    /\ listing = PyNone
    /\ model = PyNone
    /\ available_models = << >>
    /\ news_data_processed = << >>
    /\ processed_items = << >>
    /\ ei = 1
    /\ ii = 1
    /\ all_text_context = ""
    /\ insights = PyNone
    /\ glossary = PyNone
    /\ chart_data = PyNone
    /\ service_calls = << >>
    /\ last_call = [made |-> FALSE]
    /\ output = PyNone
    /\ fpc = "keyword"
    /\ topics = CapTopics
    /\ excluded_terms = PyList(<< >>)
    /\ target_date_start = start_date
    /\ target_date_end = PyNone
    /\ seen_titles = [n \in 1..4 |-> CapAccepted[n].title]
    /\ news_results = << >>
    /\ category_items = [n \in 1..4 |-> NewsItem(CapAccepted[n], parse(RecentDate).value)]
    /\ ci = 1
    /\ ki = 3
    /\ hi = 0
    /\ dt = parse(RecentDate).value
    /\ last_hit = [fate |-> "accepted", hit |-> CapAccepted[4],
                   after |-> [fate |-> "accepted", date |-> RecentDate]]
    /\ search_calls = << "k1", "k2" >>
    /\ slept = 0

NextCap ==
    \/ FetchStep(CapHits)
    \/ AfterFetch
    \/ EnrichItem(EnrichOutcomes)
    \/ EnrichCloseCategory

SpecCap == InitCap /\ [][NextCap]_vars

\* SpecSelect: load_config and configure_gemini on every listing
NextSelect ==
    \/ LoadConfig(ConfigFiles)
    \/ ConfigureNoKey
    \/ ConfigureWithKey(AllDiscoveries)

SpecSelect == Init /\ [][NextSelect]_vars

-----------------------------------------------------------------------------
(* What the runs are checked against *)

\* the titles of a list of items, in order
TitlesOf(items) == [n \in 1..Len(items) |-> items[n]["title"].s]

\* the titles of the items of every category of an ordered dict, in order
RECURSIVE ResultTitles(_)
ResultTitles(results) ==
    IF results = << >> THEN << >>
    ELSE TitlesOf(Head(results).value) \o ResultTitles(Tail(results))

\* the titles of the items fetch_news has accepted so far: those of the
\* categories stored in news_results, then those of the category whose
\* keywords are being worked through
AcceptedTitles ==
    ResultTitles(news_results)
        \o (IF fpc \in {"keyword", "hits"} THEN TitlesOf(category_items) ELSE << >>)

\* the items of every category of an ordered dict
AllItems(results) ==
    UNION {{results[c].value[n] : n \in 1..Len(results[c].value)} :
               c \in 1..Len(results)}

\* a step that is one iteration of the loop over news_items
HitStep == fpc = "hits" /\ hi' = hi + 1

\* C1: once the enrichment loop has ended, every item of every category
\* handed to rendering has each of summary, detail, reasoning, sales_talk
\* and sales_hint present and holding a value (not None)
C1_AllFiveFieldsPopulated ==
    pc \in {"insight", "glossary", "chart", "render", "done"} =>
        \A item \in AllItems(news_data_processed) :
            \A k \in EnrichmentKeys : k \in DOMAIN item /\ item[k] # PyNone

\* the pairs of the model's titles with 2 * matches / length > 6/10, the
\* first title as the candidate and the second as the earlier one
RatioAboveSixTenths ==
    UNION {IF 10 * 2 * matching_chars(p[1], p[2], 1, Len(p[1]), 1, Len(p[2]))
                  > 6 * (Len(p[1]) + Len(p[2]))
           THEN {p} ELSE {} : p \in Titles \X Titles}

\* C2: a hit that passed the exclusion and the date filter is dropped (its
\* item not appended, its title not recorded) if and only if the ratio of its
\* title against some title accepted earlier in the run, in whatever
\* category, is strictly above 0.6; so the spec's longer example title is
\* never accepted after the shorter one
C2_DroppedIffRatioAboveThreshold ==
    /\ [][(HitStep /\ last_hit'.fate \notin {"excluded", "out_of_range"}) =>
            LET title == last_hit'.hit.title
                earlier == AcceptedTitles
                dropped == category_items' = category_items
                               /\ seen_titles' = seen_titles
            IN  dropped <=> \E n \in 1..Len(earlier) :
                                << title, earlier[n] >> \in RatioAboveSixTenths]_vars
    /\ [](\A i, j \in 1..Len(AcceptedTitles) :
              ~(i < j /\ AcceptedTitles[i] = "d-tsnt-NSHy"
                      /\ AcceptedTitles[j] = "d-tsnt-NSwHy"))

\* C2: "abcxy" was accepted after "abcde" (ratio exactly 0.6) in the first
\* category, and "abcdy" has just been dropped in the second for resembling them
C2_Witness ==
    /\ ci = 2
    /\ fpc = "hits"
    /\ seen_titles = << "abcde", "abcxy" >>
    /\ category_items = << >>
    /\ last_hit.fate = "duplicate"
    /\ last_hit.hit.title = "abcdy"

\* C3: seen_titles is, at every point of fetch_news, the sequence of the
\* titles of the items accepted so far, verbatim and in acceptance order
\* (so empty when fetch_news starts, and untouched by a dropped hit)
C3_SeenTitlesAreAcceptedTitles ==
    /\ seen_titles = AcceptedTitles
    /\ (fpc = "category" /\ ci = 1 => seen_titles = << >>)

\* C3: two hits accepted in two categories, and the latest hit dropped by
\* the exclusion filter
C3_Witness ==
    /\ fpc = "hits"
    /\ Len(news_results) = 1
    /\ Len(news_results[1].value) = 1
    /\ Len(category_items) = 1
    /\ Len(seen_titles) = 2
    /\ last_hit.fate = "excluded"

\* the wall-clock reading of a datetime in hours, its offset set aside
WallClock(d) == ((d.year * 12 + d.month) * 31 + d.day) * 24 + d.hour

\* the raw dates the parser makes nothing of
BadDates == {"", UnparseableDate}

\* C4: a hit whose raw date parses passes the date filter if and only if its
\* wall-clock instant is at or after the start, when a start is supplied,
\* and at or before the end, when an end is supplied; with neither supplied
\* the date filter drops no hit, whatever its raw date
C4_WindowInclusiveOnSuppliedBounds ==
    last_hit.fate \notin {"none", "excluded"} =>
        /\ last_hit.hit.date \notin BadDates =>
              LET instant == WallClock(parse(last_hit.hit.date).value)
                  from_start == target_date_start = PyNone
                                    \/ WallClock(target_date_start) <= instant
                  to_end == target_date_end = PyNone
                                \/ instant <= WallClock(target_date_end)
              IN  last_hit.fate # "out_of_range" <=> (from_start /\ to_end)
        /\ (target_date_start = PyNone /\ target_date_end = PyNone) =>
              last_hit.fate # "out_of_range"

\* C4: with both bounds supplied, a hit dated at the very end of the window
\* (its offset set aside) has been accepted
C4_Witness ==
    /\ target_date_start # PyNone
    /\ target_date_end # PyNone
    /\ last_hit.fate = "accepted"
    /\ last_hit.hit.date = Iso([target_date_end EXCEPT !.tzinfo = "+09:00"])
    /\ Len(category_items) > 0

\* C5: under an active window, the iteration on a hit whose raw date is empty
\* or unparseable appends no item and records no title, and leaves the loop
\* where it was: no backoff, the same keyword, the next hit to come
C5_BadDateFailsClosed ==
    [][(HitStep /\ (target_date_start # PyNone \/ target_date_end # PyNone)
            /\ last_hit'.hit.date \in BadDates) =>
          /\ category_items' = category_items
          /\ news_results' = news_results
          /\ seen_titles' = seen_titles
          /\ fpc' = "hits"
          /\ ki' = ki
          /\ ci' = ci
          /\ slept' = slept]_vars

\* C5: under an active window, a hit of an unparseable date was dropped and
\* the hit after it, of the same keyword, accepted
C5_Witness ==
    /\ (target_date_start # PyNone \/ target_date_end # PyNone)
    /\ last_hit.fate = "accepted"
    /\ last_hit.after = [fate |-> "out_of_range", date |-> UnparseableDate]
    /\ seen_titles = << last_hit.hit.title >>

\* term occurs in title, character for character
Occurs(term, title) ==
    \E i \in 0..Len(title) :
        i + Len(term) <= Len(title) /\ SubSeq(title, i + 1, i + Len(term)) = term

\* the terms of an exclusion list; an absent list has none
TermsOf(terms) == IF terms = PyNone THEN << >> ELSE terms.l

\* C6: the exclusion filter drops a hit if and only if some excluded term
\* occurs in its title character for character (case included), so no title
\* holding a term is ever accepted and an empty or absent list drops nothing:
\* under the term "AI" the title "AIk" is never accepted
C6_ExcludedIffExactSubstring ==
    /\ last_hit.fate # "none" =>
          (last_hit.fate = "excluded" <=>
               \E n \in 1..Len(TermsOf(excluded_terms)) :
                   Occurs(TermsOf(excluded_terms)[n], last_hit.hit.title))
    /\ \A i \in 1..Len(AcceptedTitles) :
           \A n \in 1..Len(TermsOf(excluded_terms)) :
               ~Occurs(TermsOf(excluded_terms)[n], AcceptedTitles[i])
    /\ TermsOf(excluded_terms) = << "AI" >> =>
           \A i \in 1..Len(AcceptedTitles) : AcceptedTitles[i] # "AIk"

\* C6: under the term "AI", "aik" was accepted and "AIk" has just been dropped
C6_Witness ==
    /\ excluded_terms = PyList(<< "AI" >>)
    /\ last_hit.fate = "excluded"
    /\ last_hit.hit.title = "AIk"
    /\ last_hit.after.fate = "accepted"
    /\ seen_titles = << "aik" >>

\* the keywords of every category of the topics, in order
RECURSIVE AllKeywords(_)
AllKeywords(t) ==
    IF t = << >> THEN << >> ELSE Head(t).keywords \o AllKeywords(Tail(t))

\* C7: a search that raises costs one backoff of two seconds and nothing
\* else: no item and no title is added or removed anywhere, and the loop
\* goes on with the next keyword of the same category; so when fetch_news
\* returns, every keyword was searched once, in order, and every category of
\* the topics has its entry, in order
C7_ProviderErrorSkipsKeyword ==
    /\ [][slept' # slept =>
            /\ slept' = slept + 2
            /\ search_calls' = Append(search_calls, topics[ci].keywords[ki])
            /\ category_items' = category_items
            /\ news_results' = news_results
            /\ seen_titles' = seen_titles
            /\ fpc' = "keyword"
            /\ ci' = ci
            /\ ki' = ki + 1]_vars
    /\ [](fpc \in {"returned", "done"} =>
            /\ search_calls = AllKeywords(topics)
            /\ [n \in 1..Len(news_results) |-> news_results[n].key]
                   = [n \in 1..Len(topics) |-> topics[n].category])

\* C7: fetch_news has returned after exactly one search raised: all three
\* keywords were searched, both categories have their entry, and the first
\* category, one of whose two searches may have raised, holds an item
C7_Witness ==
    /\ fpc = "returned"
    /\ slept = 2
    /\ search_calls = << "k1", "k2", "k3" >>
    /\ Len(news_results) = 2
    /\ Len(news_results[1].value) > 0

\* the items enriched so far, of the stored categories and of the current one
EnrichedItems ==
    AllItems(news_data_processed)
        \cup {processed_items[n] : n \in 1..Len(processed_items)}

\* C8: without a credential no call is made to the text-generation service,
\* and every enriched item has each of the five fields holding non-empty text
C8_NoCredentialPlaceholders ==
    (api_key = PyNone \/ api_key = PyStr("")) =>
        /\ service_calls = << >>
        /\ \A item \in EnrichedItems :
               \A k \in EnrichmentKeys :
                   k \in DOMAIN item /\ item[k].ty = "str" /\ item[k].s # ""

\* the number of items main enriches: at most five of each category
RECURSIVE EnrichCount(_)
EnrichCount(results) ==
    IF results = << >> THEN 0
    ELSE (IF Len(Head(results).value) < 5 THEN Len(Head(results).value) ELSE 5)
             + EnrichCount(Tail(results))

\* the per-item calls among the calls made to the service
AnalyzeCalls ==
    {n \in 1..Len(service_calls) :
        Len(service_calls[n]) >= 8 /\ SubSeq(service_calls[n], 1, 8) = "analyze:"}

\* C9: an enrichment call that raises is one call (no second one for the
\* item); the item gets its own title as summary, the error text as detail,
\* and the failure marks in the other three fields; the items enriched
\* before it stay as they were and the loop goes on in the same category;
\* so with a model, once the loop has ended, as many calls were made as
\* there are items to enrich, and every one of them has been stored
C9_RaisedCallIsolatedToItem ==
    /\ [][(pc = "enrich" /\ ii' = ii + 1 /\ last_call'.made
               /\ last_call'.outcome.raised) =>
            LET item == news_results[ei].value[ii]
                got == processed_items'[Len(processed_items')]
            IN  /\ Len(service_calls') = Len(service_calls) + 1
                /\ Len(processed_items') = Len(processed_items) + 1
                /\ SubSeq(processed_items', 1, Len(processed_items)) = processed_items
                /\ got["title"] = item["title"]
                /\ got["summary"] = item["title"]
                /\ got["detail"] =
                       PyStr("AI seisei error: " \o last_call'.outcome.message)
                /\ got["reasoning"] = PyStr("error")
                /\ got["sales_talk"] = PyStr("-")
                /\ got["sales_hint"] = PyStr("-")
                /\ pc' = "enrich"
                /\ ei' = ei
                /\ news_data_processed' = news_data_processed]_vars
    /\ []((pc \in {"insight", "glossary", "chart", "render", "done"} /\ model # PyNone) =>
            /\ Cardinality(AnalyzeCalls) = EnrichCount(news_results)
            /\ [n \in 1..Len(news_data_processed) |->
                    Len(news_data_processed[n].value)]
                   = [n \in 1..Len(news_results) |->
                          EnrichCount(<< news_results[n] >>)])

\* C9: the call for the first item of a category raised and the call for the
\* second one answered with the five fields
C9_Witness ==
    /\ pc = "enrich"
    /\ Len(processed_items) = 2
    /\ processed_items[1]["reasoning"] = PyStr("error")
    /\ processed_items[1]["detail"] = PyStr("AI seisei error: 429 quota")
    /\ processed_items[2]["reasoning"] = PyStr("R")

\* name holds the family name "gemini"
InFamily(name) ==
    \E i \in 1..Len(name) : i + 5 <= Len(name) /\ SubSeq(name, i, i + 5) = "gemini"

\* C10: with a credential, after a listing that ended normally with at least
\* one usable variant, the model is the earliest entry of the priority list
\* that is available; failing that, the earliest available variant of the
\* family; failing that, the first available variant; after a listing that
\* raised it is "gemini-pro"; and of "gemini-pro", "gemini-1.5-flash" the
\* choice is "gemini-1.5-flash"
C10_SelectionCascade ==
    (pc = "fetch" /\ api_key # PyNone /\ api_key # PyStr("")) =>
        LET names == available_models
            Listed1(c) == \E n \in 1..Len(names) : names[n] = c
            ranks == {n \in 1..Len(priority_list) : Listed1(priority_list[n])}
            family == {n \in 1..Len(names) : InFamily(names[n])}
            Least(S) == CHOOSE n \in S : \A m \in S : n <= m
        IN  /\ listing.raised => model = GenerativeModel("gemini-pro")
            /\ (~listing.raised /\ names # << >>) =>
                  model = GenerativeModel(
                      IF ranks # {} THEN priority_list[Least(ranks)]
                      ELSE IF family # {} THEN names[Least(family)]
                      ELSE names[1])
            /\ (~listing.raised /\ names = << "gemini-pro", "gemini-1.5-flash" >>) =>
                  model = GenerativeModel("gemini-1.5-flash")

\* C10: the listing gave "gemini-pro" then "gemini-1.5-flash", and
\* "gemini-1.5-flash" was selected
C10_Witness ==
    /\ pc = "fetch"
    /\ api_key = PyStr("secret")
    /\ ~listing.raised
    /\ available_models = << "gemini-pro", "gemini-1.5-flash" >>
    /\ model = GenerativeModel("gemini-1.5-flash")

\* the item the latest iteration of the enrichment loop appended
LatestEnriched == processed_items[Len(processed_items)]

\* the latest enrichment call gave a text and the parser returned
LatestParsed ==
    /\ processed_items # << >>
    /\ last_call.made
    /\ ~last_call.outcome.raised
    /\ ~extract_json_raises(last_call.outcome.text)

\* C11: whatever subset of the five fields the parsed result has, the item
\* enriched from it has each of the five fields present and not None: the
\* parsed value, where the parser recovered the field, and else the default
\* derived from the item
C11_MergedFieldsTotal ==
    LatestParsed =>
        LET parsed == Parsed(last_call.outcome.text)
            defaults == fallback_data(last_call.item)
        IN  \A k \in EnrichmentKeys :
                /\ k \in DOMAIN LatestEnriched
                /\ LatestEnriched[k] # PyNone
                /\ LatestEnriched[k] =
                       IF k \in DOMAIN parsed THEN parsed[k] ELSE defaults[k]

\* C12: on every answer that came as text, extract_json and the regex
\* fallback return to analyze_news_with_gemini, so that the item is never
\* given the values of the except branch on account of the parser
C12_ParserNeverRaises ==
    (processed_items # << >> /\ last_call.made /\ ~last_call.outcome.raised) =>
        /\ ~extract_json_raises(last_call.outcome.text)
        /\ LatestEnriched["reasoning"] # PyStr("error")

\* C13: when extract_json finds no object in an answer, the parsed result has
\* a field if and only if some line of the answer bears the field's key or
\* its Japanese label, and then the field holds the value of the first such
\* line, cleaned of surrounding blanks, quotes and commas
C13_SalvageRecoversLabelledFields ==
    (LatestParsed /\ ~Truthy(extract_json(last_call.outcome.text))) =>
        LET lines == SalvageLines(last_call.outcome.text)
            parsed == Parsed(last_call.outcome.text)
            Labelled(k) == {n \in 1..Len(lines) : LabelMatches(lines[n].label, k)}
            First(k) == CHOOSE n \in Labelled(k) : \A m \in Labelled(k) : n <= m
            Clean(v) == StripChars(StripChars(StripChars(v, Whitespace), {"\""}), {","})
        IN  \A k \in EnrichmentKeys :
                /\ k \in DOMAIN parsed <=> Labelled(k) # {}
                /\ k \in DOMAIN parsed =>
                       parsed[k] = PyStr(Clean(lines[First(k)].value))

\* C14: on an answer that is a well-formed object between two code-fence
\* lines, extract_json returns what it returns on the object alone, the
\* object's members, and the item is enriched from them
C14_FencedExtractsAsUnfenced ==
    (LatestParsed /\ Len(last_call.outcome.text) = 3
         /\ last_call.outcome.text[1] = Fence
         /\ last_call.outcome.text[2].t = "object"
         /\ last_call.outcome.text[3] = Fence) =>
        LET bare == << last_call.outcome.text[2] >>
            members == DictOf(last_call.outcome.text[2].pairs)
        IN  /\ extract_json(last_call.outcome.text) = extract_json(bare)
            /\ extract_json(bare) = PyDict(members)
            /\ \A k \in DOMAIN members : LatestEnriched[k] = members[k]

\* C14: the item was enriched from a fenced object that has the five fields
C14_Witness ==
    /\ LatestParsed
    /\ last_call.outcome.text = << Fence, Object(PairsOf(EnrichmentKeys)), Fence >>
    /\ LatestEnriched["summary"] = PyStr("S")
    /\ LatestEnriched["sales_hint"] = PyStr("H")

\* load_config has been left without a configuration: the file was missing or
\* could not be read
ConfigNotLoaded == pc # "load_config" /\ config = EmptyDict

\* C15: when the configuration file could not be loaded, no search request and
\* no per-item call to the service is issued and nothing is handed to the page
C15_ConfigLoadFailureIsFatal ==
    ConfigNotLoaded =>
        /\ search_calls = << >>
        /\ AnalyzeCalls = {}
        /\ output = PyNone

\* the four members of a chart description
ChartKeys == {"title", "source", "reasoning", "config"}

\* C16: the chart description that generate_chart_data hands on is absent or
\* has title, source, reasoning and a config that is a mapping, and the page
\* is not given up because of the chart
C16_ChartAbsentOrComplete ==
    (pc \in {"render", "done", "aborted"}) =>
        /\ \/ chart_data = PyNone
           \/ /\ chart_data.ty = "dict"
              /\ ChartKeys \subseteq DOMAIN chart_data.d
              /\ chart_data.d["config"].ty = "dict"
        /\ (pc = "aborted" => ~ChartBreaksRender(chart_data))

\* seq is the beginning of whole
IsPrefix(seq, whole) ==
    Len(seq) <= Len(whole) /\ seq = SubSeq(whole, 1, Len(seq))

\* C17: the searches made so far are the first keywords of the topics, each
\* once, in the order of the categories and of their keywords, and all of
\* them once fetch_news has returned; the categories stored so far are the
\* first categories of the topics, in order; an iteration over a hit appends
\* the item of an accepted hit at the end of the category's list and leaves
\* the list alone otherwise, the list changes in no other way while the
\* keywords of a category are worked through, and the list is stored as it
\* is under its category
C17_OutputInConfiguredAndArrivalOrder ==
    /\ [](fpc # "idle" =>
            /\ IsPrefix(search_calls, AllKeywords(topics))
            /\ IsPrefix([n \in 1..Len(news_results) |-> news_results[n].key],
                        [n \in 1..Len(topics) |-> topics[n].category]))
    /\ [](fpc = "returned" => search_calls = AllKeywords(topics))
    /\ [][HitStep =>
            category_items' =
                IF last_hit'.fate = "accepted"
                THEN Append(category_items, NewsItem(last_hit'.hit, dt'))
                ELSE category_items]_vars
    /\ [][(category_items' # category_items /\ ~HitStep) =>
            (fpc = "category" /\ category_items' = << >>)]_vars
    /\ [][(fpc \in {"category", "keyword", "hits"} /\ news_results' # news_results) =>
            news_results' = Append(news_results,
                                   [key |-> topics[ci].category,
                                    value |-> category_items])]_vars

\* C17: under the second keyword of a category its first hit was accepted
\* and stands behind the item the first keyword gave
C17_Witness ==
    /\ fpc = "hits"
    /\ ci = 1
    /\ ki = 2
    /\ hi = 1
    /\ search_calls = << "k1", "k2" >>
    /\ last_hit.fate = "accepted"
    /\ last_hit.hit.title = "abcde"
    /\ TitlesOf(category_items) = << "AIk", "abcde" >>

\* the fields of an item that fetch_news wrote and that say what the item is
\* and where it comes from
ProvenanceKeys == {"title", "url", "source", "formatted_date", "snippet"}

\* C18: every item enriched so far in the category at hand has the title,
\* url, source, formatted date and snippet of the item that fetch_news
\* returned in its place
C18_EnrichmentKeepsProvenance ==
    (pc = "enrich" /\ ei <= Len(news_results)) =>
        \A n \in 1..Len(processed_items) :
            \A k \in ProvenanceKeys :
                processed_items[n][k] = news_results[ei].value[n][k]

\* C19: once the enrichment loop has ended after a run whose last hit was
\* dropped as a near-duplicate, the title that made it one, the first of
\* seen_titles that is_similar holds of, is the title of an item of
\* news_data_processed
C19_SuppressingStorySurvivesCap ==
    (pc = "insight" /\ last_hit.fate = "duplicate") =>
        LET similar == {n \in 1..Len(seen_titles) :
                           << last_hit.hit.title, seen_titles[n] >> \in SimilarPairs}
            cause == seen_titles[CHOOSE n \in similar : \A m \in similar : n <= m]
        IN  \E item \in AllItems(news_data_processed) : item["title"] = PyStr(cause)

=============================================================================
